---- MODULE Spec2Model ----
(***************************************************************************)
(* Discrete-event model of src/simulation.py: employees arrive, request    *)
(* one of num_scanners scanners (a simpy.Resource), are scanned for        *)
(* scan_time_per_employee seconds and leave; run_simulation aggregates the *)
(* samples of one run and the sweep loop collects one result per capacity. *)
(*                                                                         *)
(* The simpy kernel is modelled as it executes: the environment keeps a    *)
(* heap of events keyed by (time, priority, eid); every step pops the      *)
(* smallest event, sets the clock to its time and runs its callbacks.      *)
(* Employees are numbered 1..N here (0..N-1 in Python).  Times are         *)
(* integers; quotients are kept as exact fractions [num, den].             *)
(***************************************************************************)
EXTENDS Integers, Sequences, FiniteSets, TLC

\* ------------------------------------------------------------------ bounds
\* Largest number of employees of a run.
MaxEmployees == 3
\* Largest arrival time drawn by the generator.
MaxArrival == 9
\* Largest scanner count tried by the sweep.
MaxScanners == 3

\* ------------------------------------------------------- program constants
scan_time_per_employee == 8
arrival_interval_start == 0
arrival_interval_end == 40 * 60
\* simpy.core: event priorities.
URGENT == 0
NORMAL == 1
\* Seconds per minute, the divisor of lines 58 and 62.
SecondsPerMinute == 60

\* ------------------------------------------------------------- pure helpers
Min2(a, b) == IF a < b THEN a ELSE b

RECURSIVE SeqSum(_)
SeqSum(s) == IF s = <<>> THEN 0 ELSE Head(s) + SeqSum(Tail(s))

RECURSIVE SeqMax(_)
SeqMax(s) == IF Len(s) = 1 THEN Head(s)
             ELSE LET m == SeqMax(Tail(s)) IN IF Head(s) >= m THEN Head(s) ELSE m

SeqSet(s) == {s[i] : i \in 1..Len(s)}

\* list.remove(x): drops the first occurrence of x.
RECURSIVE SeqRemove(_, _)
SeqRemove(s, x) == IF s = <<>> THEN <<>>
                   ELSE IF Head(s) = x THEN Tail(s)
                   ELSE <<Head(s)>> \o SeqRemove(Tail(s), x)

\* Insert x into an ascending sequence after every element <= x (stable).
RECURSIVE InsertSorted(_, _)
InsertSorted(s, x) == IF s = <<>> THEN <<x>>
                      ELSE IF x < Head(s) THEN <<x>> \o s
                      ELSE <<Head(s)>> \o InsertSorted(Tail(s), x)

RECURSIVE SortedFrom(_, _)
SortedFrom(done, rest) == IF rest = <<>> THEN done
                          ELSE SortedFrom(InsertSorted(done, Head(rest)), Tail(rest))

\* The mutant of sorted(): the draws are kept in generation order.
SortedUnsorted(raw) == raw

\* sorted(list): ascending order.
Sorted(raw) == SortedFrom(<<>>, raw)

\* The values random.uniform(start, end) is drawn from, on the integer grid.
ArrivalValues == arrival_interval_start .. Min2(arrival_interval_end - 1, MaxArrival)

\* The scanner counts of the sweep: every pair of capacities, in both orders.
SweepLists == {<<a, b>> : a \in 1..MaxScanners, b \in 1..MaxScanners}

\* The sweeps of a single run.
OneRunLists == {<<a>> : a \in 1..MaxScanners}

\* ------------------------------------------------------------------- state
VARIABLES
  pc,               \* position of the script: "generate", "sweep", "running", "done"
  num_employees,    \* line 6: the number of employees
  scan_time,        \* line 7: the value of scan_time_per_employee in this execution
  error,            \* the uncaught exception that ended the script, <<>> if none
  arrival_times,    \* line 13: the sorted arrival times
  sweep,            \* line 66: the scanner counts to try
  results,          \* lines 16-23, 67-73: one record per finished run
  samples,          \* per finished run, its wait_times and queue_lengths lists
  num_scanners,     \* run_simulation's argument
  capacity,         \* scanner.capacity
  now,              \* env.now
  eid,              \* env._eid, the next event id
  queue,            \* env._queue, the heap of scheduled events
  users,            \* scanner.users, the requests holding a slot
  put_queue,        \* scanner.queue, the requests waiting for a slot
  wait_times,       \* line 30
  queue_lengths,    \* line 32
  total_scan_time,  \* line 31
  ppc,              \* per employee, where its generator is suspended
  queue_entry_time, \* per employee, the local of line 38
  wait_time,        \* per employee, the local of line 40
  usage_since,      \* per employee, request.usage_since (the grant instant)
  depart            \* per employee, env.now when line 47 ran

progVars == <<num_employees, scan_time, error, arrival_times, sweep, results, samples>>
envVars == <<num_scanners, capacity, now, eid, queue, users, put_queue>>
statVars == <<wait_times, queue_lengths, total_scan_time>>
procVars == <<ppc, queue_entry_time, wait_time, usage_since, depart>>
vars == <<pc, progVars, envVars, statVars, procVars>>

\* line 50: one employee process per arrival time.
Employees == DOMAIN arrival_times

\* A value no time takes: the field is not set yet.
Unset == -1

\* ------------------------------------------------------------ simpy kernel
Event(t, prio, id, kind, p) ==
  [time |-> t, prio |-> prio, eid |-> id, kind |-> kind, proc |-> p]

\* heapq order of the tuples (time, priority, eid, event).
Earlier(a, b) ==
  \/ a.time < b.time
  \/ a.time = b.time /\ a.prio < b.prio
  \/ a.time = b.time /\ a.prio = b.prio /\ a.eid < b.eid

\* The mutant of the heap order: ties at equal time and priority go to the
\* event scheduled last.
NextEventLifo(q) == CHOOSE e \in q : \A f \in q \ {e} :
  \/ e.time < f.time
  \/ e.time = f.time /\ e.prio < f.prio
  \/ e.time = f.time /\ e.prio = f.prio /\ e.eid > f.eid

\* heappop(env._queue)
NextEvent(q) == CHOOSE e \in q : \A f \in q \ {e} : Earlier(e, f)

\* The mutant of the capacity: one slot more than requested.
ResourceCapacityPlusOne(n) == n + 1

\* simpy.Resource(env, capacity=num_scanners)
ResourceCapacity(n) == n

\* The mutant of line 38: the clock is read before the arrival delay.
QueueEntryTimeAtStart(t) == 0

\* line 38: queue_entry_time = env.now
QueueEntryTime(t) == t

\* The mutant of lines 30 and 32: the list outlives the run.
FreshListKept(previous) == previous

\* lines 30 and 32: every run starts with empty sample lists.
FreshList(previous) == <<>>

\* The mutant of line 31: the counter outlives the run.
FreshCounterKept(previous) == previous

\* line 31: total_scan_time = 0
FreshCounter(previous) == 0

\* The mutant of line 44: the employee counts itself.
ObservedQueueLengthWithSelf(pq) == Len(pq) + 1

\* line 44: len(scanner.queue)
ObservedQueueLength(pq) == Len(pq)

\* The mutant of line 47: scans are counted instead of seconds.
BusyTimeAfterScanCount(total) == total + 1

\* line 47: total_scan_time += scan_time_per_employee
BusyTimeAfterScan(total) == total + scan_time

\* The mutant of line 46: the scan lasts one second longer.
ScanEndLate(t) == t + scan_time + 1

\* line 46: env.timeout(scan_time_per_employee) fires at env.now + the delay.
ScanEnd(t) == t + scan_time

\* The mutant of line 37: the employee requests a scanner twice.
EnqueueTwice(pq, p) == Append(Append(pq, p), p)

\* The mutant of line 40: the entry time is not subtracted.
WaitTimeSinceStart(t, entry) == t

\* line 40: wait_time = env.now - queue_entry_time
WaitTime(t, entry) == t - entry

\* The mutant of the wait queue: the newest request goes first.
EnqueueFront(pq, p) == <<p>> \o pq

\* Put.__init__: resource.put_queue.append(self)
Enqueue(pq, p) == Append(pq, p)

\* Resource._do_put on the head of the wait queue (BaseResource._trigger_put
\* stops after the first request, since _do_put returns None): the head is
\* granted when a slot is free.
TriggerPut(us, pq, cap) ==
  IF pq # <<>> /\ Len(us) < cap
  THEN [granted |-> <<Head(pq)>>, users |-> Append(us, Head(pq)), put_queue |-> Tail(pq)]
  ELSE [granted |-> <<>>, users |-> us, put_queue |-> pq]

\* The Request events TriggerPut's grant schedules (event.succeed()).
GrantEvents(r, t, id) ==
  {Event(t, NORMAL, id, "Request", r.granted[i]) : i \in 1..Len(r.granted)}

\* ------------------------------------------------------------- aggregation
Frac(n, d) == [num |-> n, den |-> d]

\* The mutant of line 56: the service duration is left out.
TotalEntryTimeNoScan(arr, waits) == SeqMax(arr) + SeqMax(waits)

\* line 56
TotalEntryTime(arr, waits) == SeqMax(arr) + SeqMax(waits) + scan_time

\* The mutant of line 58: employees per second.
ThroughputPerSecond(n, tet) == Frac(n, tet)

\* line 58: employees per minute, num_employees / (total_entry_time / 60)
Throughput(n, tet) == Frac(n * SecondsPerMinute, tet)

\* The mutant of line 60: the busy time is not shared among the scanners.
UtilizationOneScanner(busy, scanners, tet) == Frac(busy, tet)

\* line 60
Utilization(busy, scanners, tet) == Frac(busy, scanners * tet)

\* lines 56-62: the tuple run_simulation returns, with total_entry_time kept.
RunResult(n, arr, waits, qlens, busy, scanners) ==
  LET tet == TotalEntryTime(arr, waits) IN
  [scanners |-> scanners,
   total_entry_time |-> tet,
   total_time |-> Frac(tet, SecondsPerMinute),
   avg_wait_time |-> Frac(SeqSum(waits), Len(waits) * SecondsPerMinute),
   avg_queue_len |-> Frac(SeqSum(qlens), Len(qlens)),
   throughput |-> Throughput(n, tet),
   utilization |-> Utilization(busy, scanners, tet)]

\* -------------------------------------------------------------------- Init
InitWith(counts, durations, lists) ==
  /\ pc = "generate"
  /\ num_employees \in counts
  /\ scan_time \in durations
  /\ error = <<>>
  /\ arrival_times = <<>>
  /\ sweep \in lists
  /\ results = <<>>
  /\ samples = <<>>
  /\ num_scanners = 0
  /\ capacity = 0
  /\ now = 0
  /\ eid = 0
  /\ queue = {}
  /\ users = <<>>
  /\ put_queue = <<>>
  /\ wait_times = <<>>
  /\ queue_lengths = <<>>
  /\ total_scan_time = 0
  /\ ppc = <<>>
  /\ queue_entry_time = <<>>
  /\ wait_time = <<>>
  /\ usage_since = <<>>
  /\ depart = <<>>

Init == InitWith(1..MaxEmployees, {scan_time_per_employee}, SweepLists)

\* The script with a sweep of one scanner count.
InitOneRun == InitWith(1..MaxEmployees, {scan_time_per_employee}, OneRunLists)

\* ----------------------------------------------------------------- actions
\* lines 12-13: draw num_employees arrival times and sort them.
Generate ==
  /\ pc = "generate"
  /\ \E raw \in [1..num_employees -> ArrivalValues] :
       arrival_times' = Sorted(raw)
  /\ pc' = "sweep"
  /\ UNCHANGED <<num_employees, scan_time, error, sweep, results, samples,
                 envVars, statVars, procVars>>

\* lines 66-67 and 28-51: the next scanner count of the sweep; a fresh
\* environment, resource and sample lists; one process per arrival time, each
\* scheduling its Initialize event (URGENT, at time 0) in list order.
RunStart ==
  /\ pc = "sweep"
  /\ Len(results) < Len(sweep)
  /\ LET n == sweep[Len(results) + 1] IN
       /\ n > 0
       /\ num_scanners' = n
       /\ capacity' = ResourceCapacity(n)
  /\ now' = 0
  /\ queue' = {Event(0, URGENT, p - 1, "Initialize", p) : p \in Employees}
  /\ eid' = Cardinality(Employees)
  /\ users' = <<>>
  /\ put_queue' = <<>>
  /\ wait_times' = FreshList(wait_times)
  /\ queue_lengths' = FreshList(queue_lengths)
  /\ total_scan_time' = FreshCounter(total_scan_time)
  /\ ppc' = [p \in Employees |-> "init"]
  /\ queue_entry_time' = [p \in Employees |-> Unset]
  /\ wait_time' = [p \in Employees |-> Unset]
  /\ usage_since' = [p \in Employees |-> Unset]
  /\ depart' = [p \in Employees |-> Unset]
  /\ pc' = "running"
  /\ UNCHANGED progVars

\* env.step(): an event is pending inside env.run().
Stepping == pc = "running" /\ queue # {}

\* Initialize: the generator starts and suspends at line 36 on
\* env.timeout(arrival_time).
StepInitialize ==
  /\ Stepping
  /\ LET e == NextEvent(queue) IN
       /\ e.kind = "Initialize"
       /\ now' = e.time
       /\ queue' = (queue \ {e}) \cup
            {Event(e.time + arrival_times[e.proc], NORMAL, eid, "Timeout", e.proc)}
       /\ eid' = eid + 1
       /\ ppc' = [ppc EXCEPT ![e.proc] = "arrive"]
  /\ UNCHANGED <<pc, progVars, num_scanners, capacity, users, put_queue, statVars,
                 queue_entry_time, wait_time, usage_since, depart>>

\* The arrival timeout of line 36 fires: lines 37-39.  scanner.request()
\* appends the request to the wait queue and triggers the queue's head if a
\* slot is free; the generator records queue_entry_time and suspends on the
\* request (a triggered request is processed by a later step).
StepArrive ==
  /\ Stepping
  /\ LET e == NextEvent(queue)
         p == e.proc
         r == TriggerPut(users, Enqueue(put_queue, p), capacity) IN
       /\ e.kind = "Timeout"
       /\ ppc[p] = "arrive"
       /\ now' = e.time
       /\ users' = r.users
       /\ put_queue' = r.put_queue
       /\ queue' = (queue \ {e}) \cup GrantEvents(r, e.time, eid)
       /\ eid' = eid + Len(r.granted)
       /\ usage_since' = [q \in Employees |->
            IF q \in SeqSet(r.granted) THEN e.time ELSE usage_since[q]]
       /\ queue_entry_time' = [queue_entry_time EXCEPT ![p] = QueueEntryTime(e.time)]
       /\ ppc' = [ppc EXCEPT ![p] = "request"]
  /\ UNCHANGED <<pc, progVars, num_scanners, capacity, statVars, wait_time, depart>>

\* The Request event is processed: lines 40-46.  The employee records its
\* wait time and the length of the wait queue and suspends on the scan
\* timeout.
StepGrant ==
  /\ Stepping
  /\ LET e == NextEvent(queue)
         p == e.proc IN
       /\ e.kind = "Request"
       /\ scan_time >= 0
       /\ now' = e.time
       /\ wait_time' = [wait_time EXCEPT ![p] = WaitTime(e.time, queue_entry_time[p])]
       /\ wait_times' = Append(wait_times, WaitTime(e.time, queue_entry_time[p]))
       /\ queue_lengths' = Append(queue_lengths, ObservedQueueLength(put_queue))
       /\ queue' = (queue \ {e}) \cup
            {Event(ScanEnd(e.time), NORMAL, eid, "Timeout", p)}
       /\ eid' = eid + 1
       /\ ppc' = [ppc EXCEPT ![p] = "scan"]
  /\ UNCHANGED <<pc, progVars, num_scanners, capacity, users, put_queue,
                 total_scan_time, queue_entry_time, usage_since, depart>>

\* The scan timeout of line 46 fires: line 47 and the end of the with block.
\* Request.__exit__ releases the slot: the request leaves scanner.users at
\* once and a Release event is scheduled; then the generator ends and its
\* Process event is scheduled.
StepScanDone ==
  /\ Stepping
  /\ LET e == NextEvent(queue)
         p == e.proc IN
       /\ e.kind = "Timeout"
       /\ ppc[p] = "scan"
       /\ now' = e.time
       /\ total_scan_time' = BusyTimeAfterScan(total_scan_time)
       /\ users' = SeqRemove(users, p)
       /\ queue' = (queue \ {e}) \cup
            {Event(e.time, NORMAL, eid, "Release", p),
             Event(e.time, NORMAL, eid + 1, "Process", p)}
       /\ eid' = eid + 2
       /\ depart' = [depart EXCEPT ![p] = e.time]
       /\ ppc' = [ppc EXCEPT ![p] = "done"]
  /\ UNCHANGED <<pc, progVars, num_scanners, capacity, put_queue, wait_times,
                 queue_lengths, queue_entry_time, wait_time, usage_since>>

\* The mutant of the release: the freed slot is not handed to a waiter.
StepReleaseNoGrant ==
  /\ Stepping
  /\ LET e == NextEvent(queue) IN
       /\ e.kind = "Release"
       /\ now' = e.time
       /\ queue' = queue \ {e}
  /\ UNCHANGED <<pc, progVars, num_scanners, capacity, eid, users, put_queue,
                 statVars, procVars>>

\* The Release event is processed: its callback _trigger_put grants the freed
\* slot to the head of the wait queue, at the current time.
StepRelease ==
  /\ Stepping
  /\ LET e == NextEvent(queue)
         r == TriggerPut(users, put_queue, capacity) IN
       /\ e.kind = "Release"
       /\ now' = e.time
       /\ users' = r.users
       /\ put_queue' = r.put_queue
       /\ queue' = (queue \ {e}) \cup GrantEvents(r, e.time, eid)
       /\ eid' = eid + Len(r.granted)
       /\ usage_since' = [q \in Employees |->
            IF q \in SeqSet(r.granted) THEN e.time ELSE usage_since[q]]
  /\ UNCHANGED <<pc, progVars, num_scanners, capacity, statVars, ppc,
                 queue_entry_time, wait_time, depart>>

\* The Process event of a finished employee is processed: it has no
\* callbacks.
StepProcess ==
  /\ Stepping
  /\ LET e == NextEvent(queue) IN
       /\ e.kind = "Process"
       /\ now' = e.time
       /\ queue' = queue \ {e}
  /\ UNCHANGED <<pc, progVars, num_scanners, capacity, eid, users, put_queue,
                 statVars, procVars>>

\* env.run() returns when no event is pending: lines 55-62 aggregate the run
\* and lines 67-73 append its result, provided there are employees and the
\* run span is not 0.
Finish ==
  /\ pc = "running"
  /\ queue = {}
  /\ arrival_times # <<>>
  /\ wait_times # <<>>
  /\ TotalEntryTime(arrival_times, wait_times) # 0
  /\ results' = Append(results,
       RunResult(num_employees, arrival_times, wait_times, queue_lengths, total_scan_time, num_scanners))
  /\ samples' = Append(samples,
       [wait_times |-> wait_times, queue_lengths |-> queue_lengths])
  /\ pc' = IF Len(results) + 1 = Len(sweep) THEN "done" ELSE "sweep"
  /\ UNCHANGED <<num_employees, scan_time, error, arrival_times, sweep,
                 envVars, statVars, procVars>>

Next ==
  \/ Generate
  \/ RunStart
  \/ StepInitialize
  \/ StepArrive
  \/ StepGrant
  \/ StepScanDone
  \/ StepRelease
  \/ StepProcess
  \/ Finish

Spec == Init /\ [][Next]_vars

\* env.run() and the sweep loop keep running while there is something to do.
FairSpec == InitOneRun /\ [][Next]_vars /\ WF_vars(Next)

\* ------------------------------------------- runs with degenerate parameters
\* An uncaught exception: its type and the line of the script that raises it.
Raise(type, line) == [type |-> type, line |-> line]

\* The sweeps of a single run, non-positive scanner counts included.
AnyRunLists == {<<a>> : a \in -1..MaxScanners}

\* The script with any employee count, a negative, zero or the configured
\* service duration, and any scanner count.
InitParams ==
  InitWith(0..MaxEmployees, {-1, 0, scan_time_per_employee}, AnyRunLists)

\* lines 66-67 and 28-29 with a scanner count <= 0: simpy.Resource raises
\* ValueError ('"capacity" must be > 0') right after the environment is
\* created; no list is set up and no process is started.
RunStartBadCapacity ==
  /\ pc = "sweep"
  /\ Len(results) < Len(sweep)
  /\ sweep[Len(results) + 1] <= 0
  /\ num_scanners' = sweep[Len(results) + 1]
  /\ now' = 0
  /\ queue' = {}
  /\ eid' = 0
  /\ error' = Raise("ValueError", 29)
  /\ pc' = "failed"
  /\ UNCHANGED <<num_employees, scan_time, arrival_times, sweep, results, samples,
                 capacity, users, put_queue, statVars, procVars>>

\* The Request event is processed with a negative service duration: lines
\* 40-44 record the samples, then env.timeout raises ValueError ('Negative
\* delay') at line 46.  The with block releases the slot on the way out and
\* the generator ends with the exception: its failed Process event is
\* scheduled.
StepGrantNegativeDelay ==
  /\ Stepping
  /\ LET e == NextEvent(queue)
         p == e.proc IN
       /\ e.kind = "Request"
       /\ scan_time < 0
       /\ now' = e.time
       /\ wait_time' = [wait_time EXCEPT ![p] = WaitTime(e.time, queue_entry_time[p])]
       /\ wait_times' = Append(wait_times, WaitTime(e.time, queue_entry_time[p]))
       /\ queue_lengths' = Append(queue_lengths, ObservedQueueLength(put_queue))
       /\ users' = SeqRemove(users, p)
       /\ queue' = (queue \ {e}) \cup
            {Event(e.time, NORMAL, eid, "Release", p),
             Event(e.time, NORMAL, eid + 1, "ProcessFailed", p)}
       /\ eid' = eid + 2
       /\ ppc' = [ppc EXCEPT ![p] = "failed"]
  /\ UNCHANGED <<pc, progVars, num_scanners, capacity, put_queue,
                 total_scan_time, queue_entry_time, usage_since, depart>>

\* The failed Process event is processed: env.step re-raises the exception
\* of line 46, env.run() (line 53) lets it through and the script ends.
StepProcessFailed ==
  /\ Stepping
  /\ LET e == NextEvent(queue) IN
       /\ e.kind = "ProcessFailed"
       /\ now' = e.time
       /\ queue' = queue \ {e}
  /\ error' = Raise("ValueError", 46)
  /\ pc' = "failed"
  /\ UNCHANGED <<num_employees, scan_time, arrival_times, sweep, results, samples,
                 num_scanners, capacity, eid, users, put_queue, statVars, procVars>>

\* env.run() returns at once when there is no employee: max(arrival_times)
\* at line 56 raises ValueError (max() of an empty sequence).
FinishEmpty ==
  /\ pc = "running"
  /\ queue = {}
  /\ arrival_times = <<>>
  /\ error' = Raise("ValueError", 56)
  /\ pc' = "failed"
  /\ UNCHANGED <<num_employees, scan_time, arrival_times, sweep, results, samples,
                 envVars, statVars, procVars>>

\* env.run() returns and total_entry_time is 0: the division of line 58
\* raises ZeroDivisionError.
FinishZeroSpan ==
  /\ pc = "running"
  /\ queue = {}
  /\ arrival_times # <<>>
  /\ wait_times # <<>>
  /\ TotalEntryTime(arrival_times, wait_times) = 0
  /\ error' = Raise("ZeroDivisionError", 58)
  /\ pc' = "failed"
  /\ UNCHANGED <<num_employees, scan_time, arrival_times, sweep, results, samples,
                 envVars, statVars, procVars>>

NextParams ==
  \/ Generate
  \/ RunStart
  \/ StepInitialize
  \/ StepArrive
  \/ StepGrant
  \/ StepScanDone
  \/ StepRelease
  \/ StepProcess
  \/ Finish
  \/ RunStartBadCapacity
  \/ StepGrantNegativeDelay
  \/ StepProcessFailed
  \/ FinishEmpty
  \/ FinishZeroSpan

\* The script over every parameter value, valid or not.
ParamSpec == InitParams /\ [][NextParams]_vars

\* ------------------------------------------------- vocabulary of the claims
\* A run has started (the per-employee fields exist).
Started == pc = "running" \/ results # <<>>

\* The last run has ended and its result is recorded; the run's environment
\* and sample lists are still in place.
Finished == pc \in {"sweep", "done"} /\ results # <<>>

LastResult == results[Len(results)]

\* The employee is in the wait queue of the scanners.
Waiting(p) == p \in SeqSet(put_queue)

\* The employee's request has been granted.
Granted(p) == usage_since[p] # Unset

\* The employee holds a slot: granted and not yet released.
Holding == {p \in DOMAIN usage_since : Granted(p) /\ depart[p] = Unset}

\* The employee has resumed after its grant (line 40 has run).
InService(p) == ppc[p] \in {"scan", "done"}

\* ---------------------------------------------------------------------- C1
\* C1: in every reachable state of a run the number of employees holding a
\* scanner slot (granted and not yet released) is between 0 and
\* num_scanners; scanner.users holds exactly those employees, each once.
C1_BusyWithinCapacity ==
  Started =>
    /\ Cardinality(Holding) >= 0
    /\ Cardinality(Holding) <= num_scanners
    /\ SeqSet(users) = Holding
    /\ Len(users) = Cardinality(Holding)

\* Every one of at least two scanners is taken and an employee is waiting.
C1_Witness ==
  /\ pc = "running"
  /\ num_scanners >= 2
  /\ Cardinality(Holding) = num_scanners
  /\ put_queue # <<>>

\* ---------------------------------------------------------------------- C2
\* C2: every run terminates: from any state of the k-th run the scheduler
\* reaches the end of that run with no pending event, an empty wait queue, no
\* busy scanner and every employee granted and departed.
C2_RunTerminates ==
  \A k \in {0, 1} :
    (pc = "running" /\ Len(results) = k) ~>
      (/\ pc \in {"sweep", "done"}
       /\ Len(results) = k + 1
       /\ queue = {}
       /\ put_queue = <<>>
       /\ users = <<>>
       /\ \A p \in Employees :
            ppc[p] = "done" /\ Granted(p) /\ depart[p] # Unset)

\* A run has ended in which an employee had to wait for a scanner.
C2_Witness ==
  /\ Finished
  /\ queue = {}
  /\ put_queue = <<>>
  /\ users = <<>>
  /\ \A p \in Employees : ppc[p] = "done"
  /\ \E p \in Employees : wait_time[p] > 0

\* ---------------------------------------------------------------------- C3
\* C3: FIFO grants.  For employees a before b in the arrival sequence: b is
\* never granted a slot while a is still waiting, b never starts service
\* before a, a's grant instant is no later than b's, and the wait queue is
\* kept in arrival order.
C3_FifoGrantOrder ==
  Started =>
    /\ \A a, b \in Employees : a < b =>
         /\ Waiting(a) => ~Granted(b)
         /\ Granted(b) => Granted(a) /\ usage_since[a] <= usage_since[b]
         /\ InService(b) => InService(a)
    /\ \A i, j \in DOMAIN put_queue : i < j => put_queue[i] < put_queue[j]

\* An employee arrives at the instant of a release while an earlier employee
\* is waiting: the earlier one has just been granted the freed slot and the
\* newcomer is still in the queue.
C3_Witness ==
  /\ pc = "running"
  /\ \E a, b, c \in Employees :
       /\ a < b
       /\ depart[c] = now
       /\ arrival_times[b] = now
       /\ Waiting(b)
       /\ queue_entry_time[a] # Unset /\ queue_entry_time[a] < now
       /\ usage_since[a] = now

\* ---------------------------------------------------------------------- C4
\* C4: the utilization of every finished run lies in [0, 1]: the busy time is
\* at most num_scanners * (max(arrival_times) + max(wait_times) +
\* scan_time_per_employee), and that product is positive.
C4_UtilizationBound ==
  \A i \in DOMAIN results :
    LET u == results[i].utilization IN
      /\ u.den > 0
      /\ 0 <= u.num
      /\ u.num <= u.den
      /\ Finished /\ i = Len(results) =>
           /\ u.num = total_scan_time
           /\ total_scan_time <= num_scanners *
                (SeqMax(arrival_times) + SeqMax(wait_times) + scan_time_per_employee)

\* A finished run with several scanners that were busy all the time, and one
\* whose scanners were partly idle.
C4_Witness ==
  /\ \E i \in DOMAIN results :
       results[i].scanners >= 2 /\ results[i].utilization.num = results[i].utilization.den
  /\ \E i \in DOMAIN results :
       results[i].utilization.num < results[i].utilization.den

\* The fraction f equals n / d.
FracEq(f, n, d) == f.num * d = n * f.den

\* ---------------------------------------------------------------------- C5
\* The scenario of C5 has been run: arrivals [0,1,2], one scanner, service
\* duration 8.
C5_Scenario ==
  /\ Finished
  /\ arrival_times = <<0, 1, 2>>
  /\ num_scanners = 1
  /\ scan_time_per_employee = 8

\* What C5 says of the scenario apart from the throughput: service intervals
\* [0,8), [8,16), [16,24); wait times 0, 7, 14 with mean 7; run span 24;
\* utilization 24/(1*24) = 1.
C5_Timeline ==
  /\ usage_since = <<0, 8, 16>>
  /\ depart = <<8, 16, 24>>
  /\ wait_time = <<0, 7, 14>>
  /\ wait_times = <<0, 7, 14>>
  /\ SeqSum(wait_times) = 7 * Len(wait_times)
  /\ FracEq(LastResult.avg_wait_time, 7, SecondsPerMinute)
  /\ LastResult.total_entry_time = 24
  /\ FracEq(LastResult.total_time, 24, SecondsPerMinute)
  /\ total_scan_time = 24
  /\ FracEq(LastResult.utilization, 1, 1)

\* C5 as stated: in the scenario the timeline holds and the throughput of the
\* run is 3/24 = 0.125.
C5_ScenarioAsStated ==
  C5_Scenario => C5_Timeline /\ FracEq(LastResult.throughput, 1, 8)

\* C5 as amended: in the scenario the timeline holds and the throughput of
\* the run is 3/(24/60) = 7.5 employees per minute.
C5_ScenarioPerMinute ==
  C5_Scenario => C5_Timeline /\ FracEq(LastResult.throughput, 15, 2)

\* The scenario has been run to its end.
C5_Witness == C5_Scenario /\ Len(wait_times) = 3 /\ now = 24

\* ---------------------------------------------------------------------- C6
\* All arrivals are pairwise farther apart than the service duration.
SpreadArrivals ==
  \A i, j \in Employees : i < j =>
    arrival_times[j] - arrival_times[i] > scan_time_per_employee

\* C6: with at least as many scanners as employees and arrivals pairwise
\* farther apart than the service duration, every recorded wait time and
\* every observed queue length is 0, and every employee has recorded both
\* when the run ends.
C6_NoContention ==
  Started /\ num_scanners >= Cardinality(Employees) /\ SpreadArrivals =>
    /\ \A p \in Employees : wait_time[p] \in {Unset, 0}
    /\ \A i \in DOMAIN wait_times : wait_times[i] = 0
    /\ \A i \in DOMAIN queue_lengths : queue_lengths[i] = 0
    /\ Finished =>
         /\ Len(wait_times) = Cardinality(Employees)
         /\ Len(queue_lengths) = Cardinality(Employees)
         /\ \A p \in Employees : wait_time[p] = 0

\* Such a run with several employees has ended.
C6_Witness ==
  /\ Finished
  /\ Cardinality(Employees) >= 2
  /\ num_scanners >= Cardinality(Employees)
  /\ SpreadArrivals
  /\ Len(wait_times) = Cardinality(Employees)

\* ---------------------------------------------------------------------- C7
\* C7: the total run span computed at line 56 equals the makespan, the
\* logical time at which the last employee departs.
C7_SpanIsMakespan ==
  Finished =>
    /\ LastResult.total_entry_time = SeqMax(depart)
    /\ LastResult.total_entry_time = now

\* ---------------------------------------------------------------------- C8
\* C8: for two finished runs of the sweep over the same arrival sequence, the
\* one with one scanner more has a sum of wait times, and a mean wait time,
\* no greater than the other's.
C8_MonotoneInCapacity ==
  \A i, j \in DOMAIN results :
    results[j].scanners = results[i].scanners + 1 =>
      /\ SeqSum(samples[j].wait_times) <= SeqSum(samples[i].wait_times)
      /\ results[j].avg_wait_time.num * results[i].avg_wait_time.den
           <= results[i].avg_wait_time.num * results[j].avg_wait_time.den

\* Two such runs have ended; the extra scanner shortened the waits but did
\* not remove them.
C8_Witness ==
  \E i, j \in DOMAIN results :
    /\ results[j].scanners = results[i].scanners + 1
    /\ SeqSum(samples[j].wait_times) < SeqSum(samples[i].wait_times)
    /\ SeqSum(samples[j].wait_times) > 0

\* ---------------------------------------------------------------------- C9
\* C9: two runs of the sweep with the same scanner count (and the same
\* arrival sequence and service duration) have identical wait-time and
\* queue-length lists and identical results, whatever ran before them; and
\* the pending events always have distinct ids, none of them in the past, so
\* the smallest (time, priority, id) is unique and the order of events is
\* fixed.
C9_Deterministic ==
  /\ \A i, j \in DOMAIN results :
       sweep[i] = sweep[j] => results[i] = results[j] /\ samples[i] = samples[j]
  /\ \A e, f \in queue : e # f => e.eid # f.eid
  /\ \A e \in queue : e.eid < eid /\ e.time >= now
  /\ \A e \in queue : \A f \in queue \ {e} : Earlier(e, f) \/ Earlier(f, e)

\* The same scanner count has been run twice, with employees arriving at the
\* same instant and employees that had to wait.
C9_Witness ==
  /\ pc = "done"
  /\ Len(results) = 2
  /\ sweep[1] = sweep[2]
  /\ \E a, b \in Employees : a < b /\ arrival_times[a] = arrival_times[b]
  /\ SeqSum(samples[1].wait_times) > 0
  /\ SeqSum(samples[2].queue_lengths) > 0

\* --------------------------------------------------------------------- C10
\* C10: the generated arrival sequence has exactly num_employees entries,
\* each in [arrival_interval_start, arrival_interval_end), in non-decreasing
\* order.
C10_ArrivalSequence ==
  pc # "generate" =>
    /\ Len(arrival_times) = num_employees
    /\ \A i \in DOMAIN arrival_times :
         /\ arrival_interval_start <= arrival_times[i]
         /\ arrival_times[i] < arrival_interval_end
    /\ \A i, j \in DOMAIN arrival_times : i < j => arrival_times[i] <= arrival_times[j]

\* A sequence of three arrivals, two of them equal, has been generated.
C10_Witness ==
  /\ pc = "sweep"
  /\ results = <<>>
  /\ num_employees = 3
  /\ Len(arrival_times) = 3
  /\ arrival_times[1] < arrival_times[2]
  /\ arrival_times[2] = arrival_times[3]

\* --------------------------------------------------------------------- C13
\* The employee whose arrival timeout is the next event.
Arriving(p) ==
  /\ Stepping
  /\ NextEvent(queue).kind = "Timeout"
  /\ NextEvent(queue).proc = p
  /\ ppc[p] = "arrive"

\* A Release event is the next event.
Releasing == Stepping /\ NextEvent(queue).kind = "Release"

\* C13: work conservation, step by step.  A request made while fewer than
\* capacity scanners are busy is granted in the same step, at the current
\* time, and makes one more scanner busy; its wait time is then 0.  A release
\* processed with a non-empty wait queue grants the freed slot to the head of
\* the queue at the time of the release.  When the clock advances, a
\* non-empty wait queue implies that every scanner is busy.
C13_WorkConserving ==
  [][/\ \A p \in Employees :
          Arriving(p) /\ Len(users) < num_scanners =>
            /\ usage_since'[p] = now'
            /\ queue_entry_time'[p] = now'
            /\ users' = Append(users, p)
            /\ put_queue' = put_queue
     /\ \A p \in Employees :
          (pc = "running" /\ ppc[p] = "request" /\ ppc'[p] = "scan"
             /\ usage_since[p] = queue_entry_time[p]) =>
            wait_time'[p] = 0 /\ now' = usage_since[p]
     /\ Releasing /\ put_queue # <<>> =>
          /\ usage_since'[Head(put_queue)] = now'
          /\ now' = depart[NextEvent(queue).proc]
          /\ users' = Append(users, Head(put_queue))
          /\ put_queue' = Tail(put_queue)
     /\ (pc = "running" /\ now' > now /\ put_queue # <<>>) =>
          Len(users) = num_scanners
    ]_vars

\* A release has just handed its slot to an employee that had been waiting,
\* while another scanner stays busy.
C13_Witness ==
  /\ pc = "running"
  /\ num_scanners >= 2
  /\ \E a, c \in Employees :
       /\ depart[c] = now
       /\ usage_since[a] = now
       /\ queue_entry_time[a] # Unset /\ queue_entry_time[a] < now
       /\ a \in SeqSet(users)
       /\ Len(users) = num_scanners

\* --------------------------------------------------------------------- C14
\* The employee begins service in this step (lines 40-46 run).
BeginsService(p) == pc = "running" /\ ppc[p] = "request" /\ ppc'[p] = "scan"

\* The other employees that have requested a scanner and are not yet granted.
OthersWaiting(p) ==
  {q \in Employees \ {p} : ppc[q] = "request" /\ ~Granted(q)}

\* The other employees that have arrived by time t and are not yet granted.
OthersArrivedUngranted(p, t) ==
  {q \in Employees \ {p} : arrival_times[q] <= t /\ ~Granted(q)}

\* C14: the queue-length sample an employee records when it begins service
\* is the number of other employees that have arrived and requested and are
\* not yet granted at that instant; the employee itself is not counted.
C14_QueueLengthSample ==
  [][\A p \in Employees : BeginsService(p) =>
       /\ Granted(p) /\ ~Waiting(p)
       /\ queue_lengths' = Append(queue_lengths, Cardinality(OthersWaiting(p)))
       /\ OthersWaiting(p) = OthersArrivedUngranted(p, now')
       /\ OthersWaiting(p) = SeqSet(put_queue)
    ]_vars

\* An employee that had waited begins service at the instant of a release and
\* of another employee's arrival, and records that newcomer in its sample.
C14_Witness ==
  /\ pc = "running"
  /\ \E a, b, c \in Employees :
       /\ a < b
       /\ depart[c] = now
       /\ arrival_times[b] = now
       /\ Waiting(b)
       /\ ppc[a] = "scan"
       /\ usage_since[a] = now
       /\ wait_time[a] > 0
       /\ Len(queue_lengths) = a
       /\ queue_lengths[a] >= 1

\* --------------------------------------------------------------------- C15
\* The employees whose service has ended (line 47 has run).
Departed == {p \in DOMAIN ppc : ppc[p] = "done"}

\* The employees that have begun service (lines 40-44 have run).
Served == {p \in DOMAIN ppc : InService(p)}

\* The sample lists hold one entry per employee that has begun service, in
\* employee order, and the busy time is one service duration per departed
\* employee; once the scheduler has stopped that is every employee.
SamplesComplete ==
  Started =>
    /\ Len(wait_times) = Cardinality(Served)
    /\ Len(queue_lengths) = Cardinality(Served)
    /\ \A p \in Served : p \in DOMAIN wait_times /\ wait_times[p] = wait_time[p]
    /\ total_scan_time = scan_time_per_employee * Cardinality(Departed)
    /\ Finished =>
         /\ Len(wait_times) = num_employees
         /\ Len(queue_lengths) = num_employees
         /\ total_scan_time = num_employees * scan_time_per_employee

\* C15: after every step the sample lists hold exactly one sample per
\* employee that has begun service and total_scan_time is the service
\* duration times the number of departed employees (all of them once the run
\* has ended); within a run total_scan_time changes only by growing by one
\* service duration, in the step in which exactly one employee departs.
C15_OneSamplePerEmployee ==
  [][/\ SamplesComplete'
     /\ (pc = "running" /\ total_scan_time' # total_scan_time) =>
          /\ total_scan_time' = total_scan_time + scan_time_per_employee
          /\ \E p \in Employees : Departed' = Departed \cup {p} /\ p \notin Departed
     /\ (pc = "running" /\ Departed' # Departed) =>
          total_scan_time' = total_scan_time + scan_time_per_employee
    ]_vars

\* A run of three employees, one of which had to wait, has ended.
C15_Witness ==
  /\ Finished
  /\ num_employees = 3
  /\ Len(wait_times) = 3
  /\ Len(queue_lengths) = 3
  /\ total_scan_time = 3 * scan_time_per_employee
  /\ \E p \in Employees : wait_time[p] > 0

\* --------------------------------------------------------------------- C16
\* C16: every granted slot is held for exactly the service duration.  An
\* employee begins service at its grant instant; while it has not released it
\* is in scanner.users and the clock has not passed grant instant +
\* scan_time_per_employee; it releases exactly at that time; and once it has
\* released it holds no slot.
C16_FixedServiceDuration ==
  Started =>
    \A p \in Employees :
      /\ InService(p) => queue_entry_time[p] + wait_time[p] = usage_since[p]
      /\ (Granted(p) /\ depart[p] = Unset) =>
           /\ p \in SeqSet(users)
           /\ now <= usage_since[p] + scan_time_per_employee
           /\ ppc[p] \in {"request", "scan"}
      /\ depart[p] # Unset =>
           /\ Granted(p)
           /\ depart[p] = usage_since[p] + scan_time_per_employee
           /\ p \notin SeqSet(users)

\* An employee that had to wait has released its scanner while another one is
\* still being served.
C16_Witness ==
  /\ pc = "running"
  /\ \E p, q \in Employees :
       /\ depart[p] # Unset
       /\ wait_time[p] > 0
       /\ depart[p] = usage_since[p] + scan_time_per_employee
       /\ ppc[q] = "scan"
       /\ wait_time[q] > 0

\* --------------------------------------------------------------------- C17
\* The stage of the lifecycle an employee is in: 0 Created (not yet arrived),
\* 1 Waiting (requested), 2 InService, 3 Departed.
Stage(position) ==
  CASE position \in {"init", "arrive"} -> 0
    [] position = "request" -> 1
    [] position = "scan" -> 2
    [] position = "done" -> 3

\* The pending events of a kind that belong to an employee.
Pending(kind, p) == {e \in queue : e.kind = kind /\ e.proc = p}

\* An employee's fields agree with its stage: it is in the wait queue at
\* most once and only while Waiting and not granted; it has requested at its
\* arrival time, never earlier; it is granted from some point of Waiting on
\* and has released exactly when Departed.
LifecycleConsistent ==
  Started =>
    /\ \A i, j \in DOMAIN put_queue : i # j => put_queue[i] # put_queue[j]
    /\ \A i, j \in DOMAIN users : i # j => users[i] # users[j]
    /\ \A p \in Employees :
         /\ Waiting(p) => Stage(ppc[p]) = 1 /\ ~Granted(p)
         /\ Stage(ppc[p]) = 0 <=> queue_entry_time[p] = Unset
         /\ Stage(ppc[p]) >= 1 =>
              queue_entry_time[p] >= arrival_times[p] /\ now >= arrival_times[p]
         /\ Stage(ppc[p]) = 1 => Waiting(p) \/ Granted(p)
         /\ Stage(ppc[p]) >= 2 => Granted(p)
         /\ Granted(p) => Stage(ppc[p]) >= 1
         /\ Stage(ppc[p]) = 3 <=> depart[p] # Unset
         /\ Cardinality(Pending("Request", p)) <= 1
         /\ Cardinality(Pending("Release", p)) <= 1

\* C17: every employee passes Created, Waiting, InService, Departed in that
\* order, one stage at a time and never backwards; it enters the wait queue
\* at most once, is granted exactly once and releases exactly once (its grant
\* and release instants never change once set, and each is announced by one
\* event).
C17_Lifecycle ==
  [][/\ LifecycleConsistent'
     /\ pc = "running" =>
          \A p \in Employees :
            /\ Stage(ppc'[p]) \in {Stage(ppc[p]), Stage(ppc[p]) + 1}
            /\ Granted(p) => usage_since'[p] = usage_since[p]
            /\ depart[p] # Unset => depart'[p] = depart[p]
            /\ queue_entry_time[p] # Unset => queue_entry_time'[p] = queue_entry_time[p]
            /\ (Stage(ppc[p]) # 0 /\ ~Waiting(p)) => ~Waiting(p)'
            /\ (~Granted(p) /\ Granted(p)') =>
                 Cardinality(Pending("Request", p)') = 1
            /\ (Stage(ppc[p]) = 2 /\ Stage(ppc'[p]) = 3) =>
                 Cardinality(Pending("Release", p)') = 1
            /\ Pending("Request", p)' \subseteq Pending("Request", p)
                 \/ (~Granted(p) /\ Granted(p)')
            /\ Pending("Release", p)' \subseteq Pending("Release", p)
                 \/ (Stage(ppc[p]) = 2 /\ Stage(ppc'[p]) = 3)
    ]_vars

\* One employee has departed, one is in service and one is waiting.
C17_Witness ==
  /\ pc = "running"
  /\ \E p, q, r \in Employees :
       /\ ppc[p] = "done"
       /\ ppc[q] = "scan"
       /\ Waiting(r)

\* --------------------------------------------------------------------- C18
\* Order by (scheduled time, scheduling sequence number).
EarlierBySequence(a, b) ==
  a.time < b.time \/ (a.time = b.time /\ a.eid < b.eid)

\* C18: every scheduler step removes exactly one pending event, the one with
\* the smallest (scheduled time, scheduling sequence number), and sets the
\* clock to its time, which is not before the previous clock value; events
\* scheduled by the step get later sequence numbers and times not before the
\* clock, so events of equal time are processed in the order they were
\* scheduled.
C18_ClockMonotone ==
  [][Stepping =>
       /\ now' >= now
       /\ \E e \in queue :
            /\ queue \ queue' = {e}
            /\ now' = e.time
            /\ \A f \in queue \ {e} : EarlierBySequence(e, f)
       /\ \A f \in queue' \ queue : f.eid >= eid /\ f.eid < eid' /\ f.time >= now'
       /\ eid' >= eid
    ]_vars

\* The clock has advanced and several events scheduled for the current
\* instant are pending.
C18_Witness ==
  /\ pc = "running"
  /\ now > 0
  /\ \E e, f \in queue :
       /\ e.eid < f.eid
       /\ e.time = now /\ f.time = now
       /\ e.prio = f.prio
       /\ e.kind = "Timeout" /\ f.kind = "Release"

\* --------------------------------------------------------------------- C19
\* C19: the total run span of line 56 never underestimates the makespan: it
\* is at least arrival time + wait time + service duration of every employee
\* (its departure time), and it equals the time of the last departure
\* whenever an employee with the last arrival time has the maximum wait time.
C19_SpanNeverUnderestimates ==
  Finished =>
    /\ \A p \in Employees :
         /\ LastResult.total_entry_time
              >= arrival_times[p] + wait_time[p] + scan_time_per_employee
         /\ LastResult.total_entry_time >= depart[p]
    /\ LastResult.total_entry_time >= now
    /\ (\E p \in Employees :
          /\ arrival_times[p] = SeqMax(arrival_times)
          /\ wait_time[p] = SeqMax(wait_times)) =>
         /\ LastResult.total_entry_time = SeqMax(depart)
         /\ LastResult.total_entry_time = now

\* A run has ended whose span is larger than its makespan: the longest wait
\* was not the last arrival's.
C19_Witness ==
  /\ Finished
  /\ LastResult.total_entry_time > SeqMax(depart)
  /\ wait_time[Len(arrival_times)] < SeqMax(wait_times)

\* --------------------------------------------------------------------- C20
\* The reference recurrence for the grant instant of employee p (1-based; the
\* claim's k is p - 1) with c scanners: the arrival time for the first c
\* employees, else the later of the arrival time and the grant instant of
\* employee p - c plus the service duration.
RECURSIVE RefGrant(_, _, _)
RefGrant(arr, c, p) ==
  IF p <= c THEN arr[p]
  ELSE LET free == RefGrant(arr, c, p - c) + scan_time_per_employee IN
       IF arr[p] >= free THEN arr[p] ELSE free

\* C20: the grant instant the simulation produces for every employee equals
\* the reference recurrence; each recorded wait time is the grant instant
\* minus the arrival time, is >= 0 and is at most floor(k / C) service
\* durations, k being the employee's 0-based index.
C20_MatchesRecurrence ==
  Started =>
    \A p \in Employees :
      /\ Granted(p) => usage_since[p] = RefGrant(arrival_times, num_scanners, p)
      /\ InService(p) =>
           /\ wait_time[p] = RefGrant(arrival_times, num_scanners, p) - arrival_times[p]
           /\ wait_times[p] = wait_time[p]
           /\ wait_time[p] >= 0
           /\ wait_time[p] <= ((p - 1) \div num_scanners) * scan_time_per_employee

\* With two scanners the third employee had to wait for the first one's
\* scanner, for less than a full service duration.
C20_Witness ==
  /\ Finished
  /\ num_scanners = 2
  /\ num_employees = 3
  /\ wait_time[3] > 0
  /\ wait_time[3] < scan_time_per_employee
  /\ usage_since[3] = usage_since[1] + scan_time_per_employee

\* --------------------------------------------------------------------- C11
\* The script has reached the aggregation of a run (lines 55-62): it has
\* recorded the result or failed there.
AggregationReached ==
  \/ results # <<>>
  \/ pc = "failed" /\ error.line >= 55

\* The run has no observation, or its total run span is 0.
EmptyRun ==
  \/ arrival_times = <<>>
  \/ wait_times = <<>>
  \/ TotalEntryTime(arrival_times, wait_times) = 0

\* C11: an aggregation with zero employees or with a total run span of 0
\* fails with an EmptyRunError raised at the aggregation step and yields no
\* result; no division by zero and no other error comes out of it.
C11_EmptyRunError ==
  /\ (AggregationReached /\ EmptyRun) =>
       /\ pc = "failed"
       /\ results = <<>>
       /\ error.type = "EmptyRunError"
  /\ (pc = "failed" /\ error.line >= 55) => error.type = "EmptyRunError"

\* --------------------------------------------------------------------- C12
\* run_simulation has been called.
RunRequested == pc \in {"running", "failed"} \/ results # <<>>

\* The run was refused by a parameter check made before anything is set up
\* (lines 27-29); Python reports an invalid parameter as a ValueError.
InvalidParameter ==
  /\ pc = "failed"
  /\ error.type = "ValueError"
  /\ error.line \in 27..29

\* C12: a run requested with a non-positive capacity or a non-positive
\* service duration is rejected with an InvalidParameter error: no employee
\* process starts, no sample is recorded and no result is produced.
C12_InvalidParameterRejected ==
  (RunRequested /\ (num_scanners <= 0 \/ scan_time <= 0)) =>
    /\ InvalidParameter
    /\ wait_times = <<>>
    /\ queue_lengths = <<>>
    /\ results = <<>>
    /\ \A p \in DOMAIN ppc : ppc[p] = "init"

====
